---- MODULE Spec2Model ----
(***************************************************************************)
(* gitfs: a file-system facade (GitFs, fs.go) over a go-git client (Git)   *)
(* whose durable store is a remote git repository.  The model covers the   *)
(* configuration check, the bootstrap (NewGit / buildDotStore), Reset,     *)
(* Pull, the status reconciliation (traverseDir / GetStatus) and Sync.     *)
(*                                                                         *)
(* A store is the billy.Filesystem of one handle: the caller-visible files *)
(* (path -> content) and the metadata entry ".git".  The metadata is kept  *)
(* as what go-git's filesystem storage reads back from it: whether HEAD    *)
(* exists (init), the URL of remote "origin", the commit refs/heads/master *)
(* points at (head) and the index.  A commit is kept as what the program   *)
(* reads of it: its history, the identities of its ancestors and itself,   *)
(* root first, and its tree.  Identities are handed out by a counter.      *)
(***************************************************************************)
EXTENDS Integers, Sequences, FiniteSets, TLC

\* ------------------------------------------------------------------ bounds
MaxCommits == 3

\* --------------------------------------------------------------- constants
Handles == {"A"}
Nil == "nil"
NoFile == "-"
Contents == {"x", "y"}
GitDirName == ".git"
Root == "/"
\* names in the order ReadDir returns them (sorted by file name)
NameOrder == <<".git", "HEAD", "a", "c", "d">>
\* the regular files a caller creates through the facade
Paths == {<<"a">>, <<"d", "a">>}
\* what callers write and rename: <<path, content>> and <<old, new>>
Writes == {<<<<"a">>, "x">>, <<<<"a">>, "y">>, <<<<"d", "a">>, "x">>}
Renames == {<<<<"d", "a">>, <<"a">>>>}
\* what the other writer on the remote writes
OtherWrites == {<<<<"a">>, "y">>}
EmptyTree == [p \in Paths |-> NoFile]
\* the tree of the commit the remote holds before any handle exists
InitTree == [p \in Paths |-> IF p = <<"a">> THEN "x" ELSE NoFile]

\* strings are sequences of characters: the URLs and base directories a
\* caller may configure
Urls == {<<>>, <<" ">>, <<"u">>, <<" ", "u", " ">>, <<"v">>}
BaseDirs == {<<>>, <<" ">>, <<"d">>}
\* every value of the Config struct
Configs == [repoUrl : Urls, useMemFs : BOOLEAN, osFsBaseDir : BaseDirs,
            openExisting : BOOLEAN]
\* the configurations sessions are started with: NewConfig().SetUrl(url)
\* followed by UseMemFs() or UseOsFs(dir, openExisting)
SessionConfigs ==
  {[repoUrl |-> <<"u">>, useMemFs |-> TRUE, osFsBaseDir |-> <<>>,
    openExisting |-> FALSE],
   [repoUrl |-> <<"u">>, useMemFs |-> FALSE, osFsBaseDir |-> <<"d">>,
    openExisting |-> FALSE],
   [repoUrl |-> <<"u">>, useMemFs |-> FALSE, osFsBaseDir |-> <<"d">>,
    openExisting |-> TRUE]}
\* the one repository that exists on the network
RemoteUrl == <<"u">>
NoUrl == <<>>

\* go-git StatusCode bytes; gitfs reuses them and adds Inconsistent
Unmodified == " "
Inconsistent == "!"
Untracked == "?"
Modified == "M"
Added == "A"
Deleted == "D"
Renamed == "R"
Copied == "C"
UpdatedButUnmerged == "U"
GitCodes == {Unmodified, Untracked, Modified, Added, Deleted, Renamed, Copied,
             UpdatedButUnmerged}

\* ------------------------------------------------------------------- state
VARIABLES
  ncommits, \* the number of commit objects created so far
  remote,   \* the commit refs/heads/master of the remote points at
  store,    \* store[h]: [files, meta] of handle h's billy.Filesystem
  handle,   \* handle[h]: the *GitFs of slot h: [bound, repoUrl, pulled]
  last,     \* the last call and what it returned
  fstatus,  \* input of the status decision (decision-table specification)
  decided   \* its outcome

mainVars == <<ncommits, remote, store, handle, last>>
tableVars == <<fstatus, decided>>
vars == <<ncommits, remote, store, handle, last, fstatus, decided>>

\* no commit: the zero hash, whose tree is empty
NoCommit == [hist |-> <<>>, tree |-> EmptyTree]
NoMeta == [kind |-> "absent", init |-> FALSE, origin |-> NoUrl,
           head |-> NoCommit, index |-> EmptyTree]
NoHandle == [bound |-> FALSE, repoUrl |-> NoUrl, pulled |-> FALSE]
NoCall == [op |-> "none", h |-> Nil, err |-> <<>>, steps |-> <<>>, arg |-> Nil,
           out |-> Nil]

\* ----------------------------------------------------------------- helpers
RECURSIVE TrimLeft(_)
TrimLeft(s) == IF s # <<>> /\ Head(s) = " " THEN TrimLeft(Tail(s)) ELSE s

RECURSIVE TrimRight(_)
TrimRight(s) ==
  IF s # <<>> /\ s[Len(s)] = " " THEN TrimRight(SubSeq(s, 1, Len(s) - 1)) ELSE s

\* strings.TrimSpace
TrimSpace(s) == TrimRight(TrimLeft(s))

TreeOf(c) == c.tree

\* the identities of the commits reachable from c through parents, c included
Ancestors(c) == {c.hist[i] : i \in 1..Len(c.hist)}

\* isFastForward(old, new): old is reachable from new
IsAncestor(old, new) ==
  Len(old.hist) <= Len(new.hist) /\ SubSeq(new.hist, 1, Len(old.hist)) = old.hist

\* history depth of a head
Depth(c) == Len(c.hist)

\* a commit object with the given parent and tree, under a fresh identity
NewCommit(w, parent, tree) ==
  [hist |-> Append(parent.hist, w.ncommits + 1), tree |-> tree]

\* ------------------------------------------------------- go-git: wt.Status
\* go-git's per-path FileStatus; present = FALSE is the nil map entry
NilStatus == [present |-> FALSE, Staging |-> Unmodified, Worktree |-> Unmodified]
FileStatus(s, w) == [present |-> TRUE, Staging |-> s, Worktree |-> w]

\* merkletrie action between two versions of one path
Change(from, to) ==
  IF from = to THEN "none"
  ELSE IF from = NoFile THEN "insert"
  ELSE IF to = NoFile THEN "delete"
  ELSE "modify"

\* Worktree.Status for one path: the HEAD tree against the index gives the
\* staging state, the index against the files gives the worktree state; an
\* untracked file is Untracked in both.
WtStatus(st, p) ==
  IF p \notin Paths \/ \E i \in 1..Len(p) : p[i] = GitDirName THEN NilStatus
  ELSE
    LET left == Change(TreeOf(st.meta.head)[p], st.meta.index[p])
        right == Change(st.meta.index[p], st.files[p])
        staged == CASE left = "delete" -> Deleted
                    [] left = "insert" -> Added
                    [] left = "modify" -> Modified
                    [] OTHER -> Unmodified
    IN CASE right = "none" /\ left = "none" -> NilStatus
         [] right = "none" -> FileStatus(staged, Unmodified)
         [] right = "delete" -> FileStatus(staged, Deleted)
         [] right = "insert" -> FileStatus(Untracked, Untracked)
         [] OTHER -> FileStatus(staged, Modified)

\* ------------------------------------------------------------- traverseDir
IsPrefix(d, p) == Len(d) < Len(p) /\ SubSeq(p, 1, Len(d)) = d

\* every entry of the store as a path from the root: the caller's files and
\* what the metadata entry holds
Entries(st) ==
  {<<Root>> \o p : p \in {q \in DOMAIN st.files : st.files[q] # NoFile}}
  \cup (IF st.meta.kind = "absent" THEN {} ELSE {<<Root, GitDirName>>})
  \cup (IF st.meta.kind = "dir" /\ st.meta.init
        THEN {<<Root, GitDirName, "HEAD">>} ELSE {})

IsDir(st, path) ==
  \/ \E e \in Entries(st) : IsPrefix(path, e)
  \/ path = <<Root, GitDirName>> /\ st.meta.kind = "dir"

\* fs.ReadDir(dir): the entries directly under dir, sorted by name
ReadDir(st, dir) ==
  LET entries == Entries(st)
      has(n) == \E e \in entries :
                  e = Append(dir, n) \/ IsPrefix(Append(dir, n), e)
  IN SelectSeq(NameOrder, has)

RECURSIVE traverseFromNoSkip(_, _, _)
\* the loop without the test that skips the metadata name
traverseFromNoSkip(st, dir, i) ==
  LET files == ReadDir(st, dir) IN
  IF i > Len(files) THEN <<>>
  ELSE LET name == files[i]
           path == Append(dir, name)
       IN (IF IsDir(st, path) THEN traverseFromNoSkip(st, path, 1)
           ELSE <<Tail(path)>>)
          \o traverseFromNoSkip(st, dir, i + 1)

RECURSIVE traverseFromRootSkip(_, _, _)
\* the loop skipping the metadata name in the root directory only
traverseFromRootSkip(st, dir, i) ==
  LET files == ReadDir(st, dir) IN
  IF i > Len(files) THEN <<>>
  ELSE LET name == files[i]
           path == Append(dir, name)
       IN (IF name = GitDirName /\ dir = <<Root>> THEN <<>>
           ELSE IF IsDir(st, path) THEN traverseFromRootSkip(st, path, 1)
           ELSE <<Tail(path)>>)
          \o traverseFromRootSkip(st, dir, i + 1)

RECURSIVE traverseFrom(_, _, _)
\* the loop of traverseDir from the i-th entry of dir on: the arguments the
\* callback is invoked with, in order
traverseFrom(st, dir, i) ==
  LET files == ReadDir(st, dir) IN
  IF i > Len(files) THEN <<>>
  ELSE LET name == files[i]
           path == Append(dir, name)
       IN (IF name = GitDirName THEN <<>>
           ELSE IF IsDir(st, path) THEN traverseFrom(st, path, 1)
           ELSE <<Tail(path)>>)
          \o traverseFrom(st, dir, i + 1)

traverseDir(st, dir) == traverseFrom(st, dir, 1)

\* --------------------------------------------------------------- GetStatus
\* the decision without the branch for unequal states
DecideLastWins(fs) ==
  IF ~fs.present THEN Nil
  ELSE IF fs.Staging = Unmodified /\ fs.Worktree = Unmodified THEN Nil
  ELSE IF fs.Staging = Unmodified THEN fs.Worktree
  ELSE IF fs.Worktree = Unmodified THEN fs.Staging
  ELSE fs.Worktree

\* the decision of the GetStatus callback for one path; Nil = no entry added
Decide(fs) ==
  IF ~fs.present THEN Nil
  ELSE IF fs.Staging = Unmodified /\ fs.Worktree = Unmodified THEN Nil
  ELSE IF fs.Staging = Unmodified THEN fs.Worktree
  ELSE IF fs.Worktree = Unmodified THEN fs.Staging
  ELSE IF fs.Staging # fs.Worktree THEN Inconsistent
  ELSE fs.Worktree

\* GetStatus that reports the staging state alone
GetStatusStagingOnly(st) ==
  LET visited == traverseDir(st, <<Root>>)
      keys == {visited[i] : i \in 1..Len(visited)}
  IN [p \in {k \in keys : WtStatus(st, k).Staging # Unmodified} |->
        WtStatus(st, p).Staging]

\* Git.GetStatus: the map path -> StatusCode
GetStatus(st) ==
  LET visited == traverseDir(st, <<Root>>)
      keys == {visited[i] : i \in 1..Len(visited)}
  IN [p \in {k \in keys : Decide(WtStatus(st, k)) # Nil} |->
        Decide(WtStatus(st, p))]

\* ------------------------------------------------------------ the git client
\* The methods of Git act on a world w: the store of the handle (st), the
\* fields of the handle (g), the commit objects, the remote branch, and the
\* trace of the client calls made so far (calls).  Each returns [w, err].
\* fail names the call that meets an I/O or transport failure, if any.
Ret(w, err) == [w |-> w, err |-> err]

\* errors are the chain of messages pkg/errors builds, outermost first; the
\* nil error is the empty chain
NoErr == <<>>
NewErr(msg) == <<msg>>
Wrap(err, msg) == <<msg>> \o err
Cause(err) == err[Len(err)]
Called(w, name) == [w EXCEPT !.calls = Append(@, name)]

\* the refspec Push hands to go-git; a leading "+" makes the update forced
PushRefSpec == <<"+", "refs/heads/master", ":", "refs/heads/master">>
IsForceUpdate(rs) == rs # <<>> /\ Head(rs) = "+"

\* buildDotStore without the errorIfExists guard
buildDotStoreUnguarded(st, errorIfExists) ==
  LET exists == st.meta.kind # "absent" IN
  IF exists /\ st.meta.kind # "dir"
    THEN [exists |-> TRUE, err |-> NewErr(".git is not a directory")]
  ELSE [exists |-> exists, err |-> NoErr]

\* buildDotStore: [exists, err]
buildDotStore(st, errorIfExists) ==
  LET exists == st.meta.kind # "absent" IN
  IF exists /\ errorIfExists
    THEN [exists |-> TRUE, err |-> NewErr("repo already exists")]
  ELSE IF exists /\ st.meta.kind # "dir"
    THEN [exists |-> TRUE, err |-> NewErr(".git is not a directory")]
  ELSE [exists |-> exists, err |-> NoErr]

\* a network operation against url meets the remote repository
Reachable(url, fail, op) == url = RemoteUrl /\ fail # op

\* Worktree.Reset(MergeReset) to commit c, as Clone and Pull use it: refuses
\* when a tracked file is modified or deleted in the worktree, else makes the
\* index and the files the tree of c.
HasUnstaged(st) ==
  \E p \in Paths : Change(st.meta.index[p], st.files[p]) \in {"modify", "delete"}

MergeReset(st, c) ==
  [st EXCEPT !.meta.index = TreeOf(c), !.files = TreeOf(c)]

\* git.Open: needs the HEAD reference of an initialized repository
Open(w) ==
  LET w1 == Called(w, "Open") IN
  IF ~w.st.meta.init THEN Ret(w1, NewErr("repository does not exist")) ELSE Ret(w1, NoErr)

\* git.CloneContext: Init the metadata, register origin, fetch, set the
\* branch, check the tree out.  A failed or cancelled fetch returns with the
\* initialized metadata left in the store.
Clone(w, url, fail) ==
  LET w1 == Called(w, "Clone")
      inited == [w1 EXCEPT !.st.meta = [kind |-> "dir", init |-> TRUE,
                                         origin |-> url, head |-> NoCommit,
                                         index |-> EmptyTree]]
  IN IF ~Reachable(url, fail, "clone") THEN Ret(inited, NewErr("clone failed"))
     ELSE LET fetched == [inited EXCEPT !.st.meta.head = w.remote] IN
          Ret([fetched EXCEPT !.st = MergeReset(@, w.remote)], NoErr)

\* NewGit that clones whether or not the metadata exists
NewGitAlwaysClones(w, repoUrl, useMemfs, errorIfExists, fail) ==
  IF fail = "key" THEN Ret(w, Wrap(NewErr("read failed"), "error reading private key"))
  ELSE
    LET w1 == IF useMemfs
                THEN [w EXCEPT !.st = [files |-> EmptyTree, meta |-> NoMeta]]
                ELSE w
        dot == buildDotStore(w1.st, errorIfExists)
    IN IF dot.err # NoErr THEN Ret(w1, Wrap(dot.err, "error chrooting .git"))
       ELSE LET r == Clone(w1, repoUrl, fail) IN
            IF r.err # NoErr THEN Ret(r.w, Wrap(r.err, "error cloning repo"))
            ELSE Ret([r.w EXCEPT !.g = [bound |-> TRUE, repoUrl |-> repoUrl,
                                        pulled |-> FALSE]], NoErr)

\* NewGit: credential, store, buildDotStore, Open or Clone, worktree
NewGit(w, repoUrl, useMemfs, errorIfExists, fail) ==
  IF fail = "key" THEN Ret(w, Wrap(NewErr("read failed"), "error reading private key"))
  ELSE
    LET w1 == IF useMemfs
                THEN [w EXCEPT !.st = [files |-> EmptyTree, meta |-> NoMeta]]
                ELSE w
        dot == buildDotStore(w1.st, errorIfExists)
    IN IF dot.err # NoErr THEN Ret(w1, Wrap(dot.err, "error chrooting .git"))
       ELSE LET r == IF dot.exists THEN Open(w1) ELSE Clone(w1, repoUrl, fail) IN
            IF r.err # NoErr THEN Ret(r.w, Wrap(r.err, "error cloning repo"))
            ELSE Ret([r.w EXCEPT !.g = [bound |-> TRUE, repoUrl |-> repoUrl,
                                        pulled |-> FALSE]], NoErr)

\* Reset that re-registers the remote but keeps the old metadata
ResetKeepsHistory(w, fail) ==
  LET w1 == Called(w, "Reset") IN
  IF fail \in {"remove", "init", "remote"}
    THEN Ret(w1, Wrap(NewErr("remove failed"), "error removing .git"))
  ELSE Ret([w1 EXCEPT !.st.meta.origin = w.g.repoUrl], NoErr)

\* Reset that removes the whole store, not the metadata directory alone
ResetWipesStore(w, fail) ==
  LET w1 == Called(w, "Reset") IN
  IF fail \in {"remove", "init", "remote"}
    THEN Ret([w1 EXCEPT !.st = [files |-> EmptyTree, meta |-> NoMeta]],
             Wrap(NewErr("remove failed"), "error removing .git"))
  ELSE Ret([w1 EXCEPT !.st = [files |-> EmptyTree,
                              meta |-> [kind |-> "dir", init |-> TRUE,
                                        origin |-> w.g.repoUrl,
                                        head |-> NoCommit,
                                        index |-> EmptyTree]]], NoErr)

\* Reset that re-initialises in place and leaves the old index file
ResetKeepsIndex(w, fail) ==
  LET w1 == Called(w, "Reset") IN
  IF fail \in {"remove", "init", "remote"}
    THEN Ret(w1, Wrap(NewErr("remove failed"), "error removing .git"))
  ELSE Ret([w1 EXCEPT !.st.meta = [kind |-> "dir", init |-> TRUE,
                                   origin |-> w.g.repoUrl, head |-> NoCommit,
                                   index |-> w.st.meta.index]], NoErr)

\* Git.Reset
Reset(w, fail) ==
  LET w1 == Called(w, "Reset") IN
  IF fail = "remove" THEN Ret(w1, Wrap(NewErr("remove failed"), "error removing .git"))
  ELSE
    LET removed == [w1 EXCEPT !.st.meta = NoMeta]
        dot == buildDotStore(removed.st, TRUE)
    IN IF dot.err # NoErr THEN Ret(removed, dot.err)
       ELSE IF fail = "init" THEN Ret(removed, Wrap(NewErr("init failed"), "error initing repo"))
       ELSE LET inited == [removed EXCEPT !.st.meta.kind = "dir",
                                          !.st.meta.init = TRUE]
            IN IF fail = "remote" THEN Ret(inited, Wrap(NewErr("create remote failed"), "error pushing change"))
               ELSE Ret([inited EXCEPT !.st.meta.origin = w.g.repoUrl], NoErr)

\* Git.Pull
Pull(w, fail) ==
  LET w1 == Called(w, "Pull")
      m == w.st.meta
      moved == [w1 EXCEPT !.st.meta.head = w.remote]
      failed(ww, msg) == Ret(ww, Wrap(NewErr(msg), "error pulling changes from origin"))
  IN IF m.origin = NoUrl THEN failed(w1, "remote not found")
     ELSE IF ~Reachable(m.origin, fail, "pull") THEN failed(w1, "fetch failed")
     ELSE IF m.head # NoCommit /\ m.head = w.remote THEN Ret(w1, NoErr)
     ELSE IF m.head # NoCommit /\ ~IsAncestor(m.head, w.remote)
       THEN failed(w1, "non-fast-forward update")
     ELSE IF ~m.init THEN failed(w1, "reference not found")
     ELSE IF HasUnstaged(moved.st)
       THEN failed(moved, "worktree contains unstaged changes")
     ELSE Ret([moved EXCEPT !.st = MergeReset(@, w.remote)], NoErr)

\* AddAll that stages nothing
AddAllStagesNothing(w, fail) ==
  IF fail = "add" THEN Ret(Called(w, "AddAll"), NewErr("add failed"))
  ELSE Ret(Called(w, "AddAll"), NoErr)

\* Git.AddAll: wt.Add("") stages every file found under the root
AddAll(w, fail) ==
  LET w1 == Called(w, "AddAll")
      st == w.st
      added == \E p \in Paths : st.files[p] # NoFile
      idx == [p \in Paths |-> IF st.files[p] # NoFile THEN st.files[p]
                              ELSE st.meta.index[p]]
  IN IF fail = "add" THEN Ret(w1, NewErr("add failed"))
     ELSE IF ~added THEN Ret(w1, NoErr)
     ELSE Ret([w1 EXCEPT !.st.meta.index = idx, !.st.meta.kind = "dir"], NoErr)

\* Commit that also moves the remote branch to the new commit
CommitPublishes(w, fail) ==
  LET w1 == Called(w, "Commit")
      st == w.st
      idx == [p \in Paths |-> IF WtStatus(st, p).present
                                 /\ WtStatus(st, p).Worktree \in {Modified, Deleted}
                              THEN st.files[p] ELSE st.meta.index[p]]
      new == NewCommit(w, st.meta.head, idx)
  IN IF fail = "commit" \/ ~st.meta.init THEN Ret(w1, NewErr("commit failed"))
     ELSE Ret([w1 EXCEPT !.st.meta.index = idx, !.st.meta.head = new,
                         !.ncommits = @ + 1, !.remote = new], NoErr)

\* Git.Commit: wt.Commit with All stages the modified and deleted files,
\* builds the tree of the index, and moves the branch HEAD names to the new
\* commit, whose parent is the old head (none when there is no commit yet)
Commit(w, fail) ==
  LET w1 == Called(w, "Commit")
      st == w.st
      auto == {p \in Paths : WtStatus(st, p).present
                             /\ WtStatus(st, p).Worktree \in {Modified, Deleted}}
      idx == [p \in Paths |-> IF p \in auto THEN st.files[p] ELSE st.meta.index[p]]
      staged == IF auto = {} THEN w1
                ELSE [w1 EXCEPT !.st.meta.index = idx, !.st.meta.kind = "dir"]
      new == NewCommit(w, st.meta.head, idx)
  IN IF fail = "commit" THEN Ret(w1, NewErr("commit failed"))
     ELSE IF ~st.meta.init THEN Ret(staged, NewErr("reference not found"))
     ELSE Ret([staged EXCEPT !.st.meta.head = new, !.ncommits = @ + 1], NoErr)

\* Git.Push: repo.Push of local master to origin's master
Push(w, fail) ==
  LET w1 == Called(w, "Push")
      m == w.st.meta
  IN IF m.origin = NoUrl THEN Ret(w1, NewErr("remote not found"))
     ELSE IF ~Reachable(m.origin, fail, "push") THEN Ret(w1, NewErr("push failed"))
     ELSE IF m.head = NoCommit \/ m.head = w.remote
       THEN Ret(w1, NewErr("already up-to-date"))
     ELSE IF ~IsForceUpdate(PushRefSpec) /\ ~IsAncestor(w.remote, m.head)
       THEN Ret(w1, NewErr("non-fast-forward update"))
     ELSE Ret([w1 EXCEPT !.remote = m.head], NoErr)

\* ------------------------------------------------------------------- GitFs
\* Valid that compares the strings untrimmed
ValidUntrimmed(c) ==
  IF c.repoUrl = <<>> THEN [c |-> c, err |-> NewErr("empty repo url")]
  ELSE IF c.useMemFs /\ c.osFsBaseDir # <<>>
    THEN [c |-> c, err |-> NewErr("memFs and osFs base dir are mutually exclusive")]
  ELSE IF ~c.useMemFs /\ c.osFsBaseDir = <<>>
    THEN [c |-> c, err |-> NewErr("osFs base dir is not provided")]
  ELSE [c |-> c, err |-> NoErr]

\* Config.Valid: trims the two strings in place; [c, err]
Valid(c) ==
  LET c1 == [c EXCEPT !.repoUrl = TrimSpace(@)]
      c2 == [c1 EXCEPT !.osFsBaseDir = TrimSpace(@)]
  IN IF c1.repoUrl = <<>> THEN [c |-> c1, err |-> NewErr("empty repo url")]
     ELSE IF c2.useMemFs /\ c2.osFsBaseDir # <<>>
       THEN [c |-> c2, err |-> NewErr("memFs and osFs base dir are mutually exclusive")]
     ELSE IF ~c2.useMemFs /\ c2.osFsBaseDir = <<>>
       THEN [c |-> c2, err |-> NewErr("osFs base dir is not provided")]
     ELSE [c |-> c2, err |-> NoErr]

\* gitfs.New
New(w, config, fail) ==
  LET v == Valid(config) IN
  IF v.err # NoErr THEN Ret(w, v.err)
  ELSE LET r == NewGit(w, v.c.repoUrl, v.c.useMemFs, ~v.c.openExisting, fail) IN
       IF r.err # NoErr THEN Ret(r.w, Wrap(r.err, "error creating git client")) ELSE r

\* Sync that drops the new commit again when the push fails
SyncRollsBack(w, purge, fail) ==
  LET r == IF purge THEN Reset(w, fail) ELSE Ret(w, NoErr) IN
  IF r.err # NoErr THEN Ret(r.w, Wrap(r.err, "error resetting git"))
  ELSE LET a == AddAll(r.w, fail) IN
    IF a.err # NoErr THEN Ret(a.w, Wrap(a.err, "error adding files to git"))
    ELSE LET c == Commit(a.w, fail) IN
      IF c.err # NoErr THEN Ret(c.w, Wrap(c.err, "error committing sync changes"))
      ELSE LET p == Push(c.w, fail) IN
        IF p.err # NoErr
          THEN Ret([p.w EXCEPT !.st.meta.head = a.w.st.meta.head],
                   Wrap(p.err, "error pushing change to remote repo"))
        ELSE Ret(p.w, NoErr)

\* Sync with the pull before the push that fs.go keeps commented out
SyncPullsBeforePush(w, purge, fail) ==
  LET r == IF purge THEN Reset(w, fail) ELSE Ret(w, NoErr) IN
  IF r.err # NoErr THEN Ret(r.w, Wrap(r.err, "error resetting git"))
  ELSE LET a == AddAll(r.w, fail) IN
    IF a.err # NoErr THEN Ret(a.w, Wrap(a.err, "error adding files to git"))
    ELSE LET c == Commit(a.w, fail) IN
      IF c.err # NoErr THEN Ret(c.w, Wrap(c.err, "error committing sync changes"))
      ELSE LET l == Pull(c.w, fail) IN
        IF l.err # NoErr
          THEN Ret(l.w, Wrap(l.err, "error pulling change from remote repo"))
        ELSE LET p == Push(l.w, fail) IN
          IF p.err # NoErr
            THEN Ret(p.w, Wrap(p.err, "error pushing change to remote repo"))
          ELSE Ret(p.w, NoErr)

\* GitFs.Sync
Sync(w, purge, fail) ==
  LET r == IF purge THEN Reset(w, fail) ELSE Ret(w, NoErr) IN
  IF r.err # NoErr THEN Ret(r.w, Wrap(r.err, "error resetting git"))
  ELSE LET a == AddAll(r.w, fail) IN
    IF a.err # NoErr THEN Ret(a.w, Wrap(a.err, "error adding files to git"))
    ELSE LET c == Commit(a.w, fail) IN
      IF c.err # NoErr THEN Ret(c.w, Wrap(c.err, "error committing sync changes"))
      ELSE LET p == Push(c.w, fail) IN
        IF p.err # NoErr THEN Ret(p.w, Wrap(p.err, "error pushing change to remote repo"))
        ELSE Ret(p.w, NoErr)

\* ----------------------------------------------------------------- actions
World(h) == [st |-> store[h], g |-> handle[h], ncommits |-> ncommits,
             remote |-> remote, calls |-> <<>>]

\* the state after a call on slot h returned r
Returned(h, r, op, arg, out) ==
  /\ ncommits' = r.w.ncommits
  /\ remote' = r.w.remote
  /\ store' = [store EXCEPT ![h] = r.w.st]
  /\ handle' = [handle EXCEPT ![h] = r.w.g]
  /\ last' = [op |-> op, h |-> h, err |-> r.err, steps |-> r.w.calls,
              arg |-> arg, out |-> out]
  /\ UNCHANGED tableVars

\* a facade call on store file(s) of slot h
Forwarded(h, op, files) ==
  /\ store' = [store EXCEPT ![h].files = files]
  /\ last' = [NoCall EXCEPT !.op = "File", !.h = h]
  /\ UNCHANGED <<ncommits, remote, handle, tableVars>>

\* New(ctx, config): the session of slot h starts over; a handle the slot
\* held before is dropped
NewCall(h, configs) ==
  \E config \in configs, fail \in {"none", "key", "clone"} :
    Returned(h, New([World(h) EXCEPT !.g = NoHandle], config, fail),
             "New", config, Nil)

PullCall(h) ==
  /\ handle[h].bound
  /\ \E fail \in {"none", "pull"} :
       Returned(h, Pull(World(h), fail), "Pull", Nil, Nil)

\* the calls of a Sync that may fail
SyncFails(purge) ==
  {"none", "add", "commit", "push"}
  \cup (IF purge THEN {"remove", "init", "remote"} ELSE {})

SyncCall(h) ==
  /\ handle[h].bound
  /\ ncommits < MaxCommits
  /\ \E purge \in BOOLEAN : \E fail \in SyncFails(purge) :
       Returned(h, Sync(World(h), purge, fail), "Sync", purge, Nil)

\* a status query that, like git status, writes the refreshed index back
StatusCallRefreshesIndex(h) ==
  /\ handle[h].bound
  /\ Returned(h, Ret([World(h) EXCEPT !.st.meta.index = store[h].files], NoErr),
              "Status", Nil, GetStatus(store[h]))

\* GitFs has no Status method of its own; Git.GetStatus is the query
StatusCall(h) ==
  /\ handle[h].bound
  /\ Returned(h, Ret(World(h), NoErr), "Status", Nil, GetStatus(store[h]))

\* Create(filename), Write, Close
Create(h) ==
  /\ handle[h].bound
  /\ \E wr \in Writes :
       Forwarded(h, "Create", [store[h].files EXCEPT ![wr[1]] = wr[2]])

Remove(h) ==
  /\ handle[h].bound
  /\ \E p \in Paths :
       /\ store[h].files[p] # NoFile
       /\ Forwarded(h, "Remove", [store[h].files EXCEPT ![p] = NoFile])

Rename(h) ==
  /\ handle[h].bound
  /\ \E rn \in Renames :
       /\ store[h].files[rn[1]] # NoFile
       /\ Forwarded(h, "Rename", [store[h].files EXCEPT ![rn[2]] = store[h].files[rn[1]],
                                                          ![rn[1]] = NoFile])

\* Another writer on the same remote: a whole session of a second handle on
\* a memory store of its own, as the README shows it: New, Create, Sync.
MemConfig == [repoUrl |-> RemoteUrl, useMemFs |-> TRUE, osFsBaseDir |-> <<>>,
              openExisting |-> FALSE]

OtherSession ==
  /\ ncommits < MaxCommits
  /\ \E wr \in OtherWrites, purge \in BOOLEAN :
       LET w0 == [st |-> [files |-> EmptyTree, meta |-> NoMeta], g |-> NoHandle,
                  ncommits |-> ncommits, remote |-> remote, calls |-> <<>>]
           n == New(w0, MemConfig, "none")
           w1 == [n.w EXCEPT !.st.files[wr[1]] = wr[2]]
           r == Sync(w1, purge, "none")
       IN /\ n.err = NoErr
          /\ r.err = NoErr
          /\ ncommits' = r.w.ncommits
          /\ remote' = r.w.remote
          /\ last' = [NoCall EXCEPT !.op = "Other"]
          /\ UNCHANGED <<store, handle, tableVars>>

Init ==
  /\ ncommits = 1
  /\ remote = [hist |-> <<1>>, tree |-> InitTree]
  /\ store \in [Handles -> {[files |-> EmptyTree, meta |-> NoMeta],
                            [files |-> EmptyTree,
                             meta |-> [NoMeta EXCEPT !.kind = "file"]]}]
  /\ handle = [h \in Handles |-> NoHandle]
  /\ last = NoCall
  /\ fstatus = NilStatus
  /\ decided = Nil

Next ==
  \/ OtherSession
  \/ \E h \in Handles :
    \/ NewCall(h, SessionConfigs)
    \/ PullCall(h)
    \/ SyncCall(h)
    \/ StatusCall(h)
    \/ Create(h)
    \/ Remove(h)
    \/ Rename(h)

Spec == Init /\ [][Next]_vars

\* ----------------------------------------- the decision table on its own
AllFileStatus ==
  {NilStatus} \cup {FileStatus(s, w) : s \in GitCodes, w \in GitCodes}

InitTable ==
  /\ ncommits = 1
  /\ remote = [hist |-> <<1>>, tree |-> InitTree]
  /\ store = [h \in Handles |-> [files |-> EmptyTree, meta |-> NoMeta]]
  /\ handle = [h \in Handles |-> NoHandle]
  /\ last = NoCall
  /\ fstatus \in AllFileStatus
  /\ decided = "pending"

DecideCall ==
  /\ decided = "pending"
  /\ decided' = Decide(fstatus)
  /\ UNCHANGED <<fstatus, mainVars>>

NextTable == DecideCall

SpecTable == InitTable /\ [][NextTable]_vars

\* ------------------------------------------------------------------ claims
Range(q) == {q[i] : i \in 1..Len(q)}
IsSeqPrefix(a, b) == Len(a) <= Len(b) /\ SubSeq(b, 1, Len(a)) = a
EmptyMap(m) == DOMAIN m = {}
HeadOf(h) == store[h].meta.head

\* the calls a complete Sync(purge) makes, in order
SyncSteps(purge) ==
  (IF purge THEN <<"Reset">> ELSE <<>>) \o <<"AddAll", "Commit", "Push">>

\* the message Sync wraps the failure of a call in
SyncWrapOf(step) ==
  CASE step = "Reset" -> "error resetting git"
    [] step = "AddAll" -> "error adding files to git"
    [] step = "Commit" -> "error committing sync changes"
    [] step = "Push" -> "error pushing change to remote repo"
    [] OTHER -> "?"

SyncOk(purge) == last.op = "Sync" /\ last.arg = purge /\ last.err = NoErr

\* C1: Sync(purge) calls Reset (only when purge), AddAll, Commit, Push in that
\* order and stops at the first call that fails: the calls made are a prefix
\* of that list, the prefix is complete exactly when Sync returns nil, the
\* error returned is the wrapped error of the last call made, a Sync that
\* did not reach Commit created no commit, a Sync that did not reach Push
\* left the remote branch alone, and Pull is never among the calls.
C1_SyncOrder ==
  [][last'.op = "Sync" =>
       LET done == last'.steps IN
       /\ done # <<>>
       /\ IsSeqPrefix(done, SyncSteps(last'.arg))
       /\ "Pull" \notin Range(done)
       /\ (last'.err = NoErr => done = SyncSteps(last'.arg))
       /\ (last'.err # NoErr => Head(last'.err) = SyncWrapOf(done[Len(done)]))
       /\ ("Commit" \notin Range(done) => ncommits' = ncommits)
       /\ ("Push" \notin Range(done) => remote' = remote)]_vars

\* a purging Sync whose stage-all failed: Reset and AddAll were called
C1_Witness ==
  /\ last.op = "Sync" /\ last.arg = TRUE
  /\ last.steps = <<"Reset", "AddAll">>
  /\ last.err # NoErr

\* C2: right after a Sync(false) that returned nil, Status() of that handle
\* is the empty map, whatever files were created, overwritten, removed or
\* renamed before.
C2_CleanAfterSync ==
  SyncOk(FALSE) => EmptyMap(GetStatus(store[last.h]))

\* a Sync(false) returned nil on a store where, since the clone, one file
\* was overwritten and another created
C2_Witness ==
  /\ SyncOk(FALSE)
  /\ store[last.h].files[<<"a">>] = "y"
  /\ store[last.h].files[<<"d", "a">>] = "x"

\* C3: right after a Sync(true) that returned nil, the local history is one
\* root commit and the remote branch points at that commit.
C3_PurgeDepthOne ==
  SyncOk(TRUE) =>
    /\ Depth(HeadOf(last.h)) = 1
    /\ remote = HeadOf(last.h)

\* a Sync(true) returned nil after the remote had grown a second commit: the
\* root commit it pushed is the third commit made
C3_Witness ==
  /\ SyncOk(TRUE)
  /\ remote.hist = <<3>>

PushFailed(l) ==
  l.op = "Sync" /\ l.err # NoErr /\ Head(l.err) = SyncWrapOf("Push")

\* C4 (as claimed): when the remote branch points at a commit that is not in
\* the local history of the handle, a Sync of that handle that reaches its
\* push fails there and leaves the remote branch where the other writer put
\* it.
C4_DivergedPushFails ==
  [][(last'.op = "Sync"
      /\ ~IsAncestor(remote, HeadOf(last'.h))
      /\ "Push" \in Range(last'.steps))
     => PushFailed(last') /\ remote' = remote]_vars

\* C5: a Sync whose commit succeeded and whose push failed returns that
\* error, keeps the commit it made as the local head (the remote branch is
\* unchanged and does not reach it), and leaves the handle bound; and every
\* Sync(false) that returns nil has put exactly one commit on top of the
\* local history it found, unpushed commits included, and made the remote
\* branch point at it.
C5_PushFailureKeepsCommit ==
  [][last'.op = "Sync" =>
       LET h == last'.h
           old == store[h].meta.head
           new == store'[h].meta.head
       IN /\ PushFailed(last') =>
               /\ ncommits' = ncommits + 1
               /\ new.hist # <<>> /\ new.hist[Len(new.hist)] = ncommits'
               /\ (~last'.arg => new.hist = Append(old.hist, ncommits'))
               /\ remote' = remote
               /\ ncommits' \notin Ancestors(remote')
               /\ handle'[h].bound
          /\ (last'.arg = FALSE /\ last'.err = NoErr) =>
               /\ new.hist = Append(old.hist, ncommits')
               /\ remote' = new]_vars

\* the push of a Sync(false) failed: the local head is one commit ahead of
\* the remote branch
C5_Witness ==
  /\ PushFailed(last) /\ last.arg = FALSE
  /\ HeadOf(last.h).hist = Append(remote.hist, ncommits)

\* whether New got as far as buildDotStore: the configuration is valid and
\* the private key was read
Bootstrapped(l) ==
  /\ l.op = "New"
  /\ ~(TrimSpace(l.arg.repoUrl) = <<>>)
  /\ l.arg.useMemFs <=> TrimSpace(l.arg.osFsBaseDir) = <<>>
  /\ (l.err = NoErr \/ Cause(l.err) # "read failed")

\* C6: New with openExisting = false on a path-rooted store that holds the
\* metadata directory fails with "repo already exists", returns no handle,
\* calls neither Clone nor Open and leaves the store as it was.
C6_ExistingRepoRefused ==
  [][(Bootstrapped(last')
      /\ ~last'.arg.useMemFs /\ ~last'.arg.openExisting
      /\ store[last'.h].meta.kind = "dir")
     => /\ last'.err # NoErr /\ Cause(last'.err) = "repo already exists"
        /\ ~handle'[last'.h].bound
        /\ last'.steps = <<>>
        /\ store' = store]_vars

\* New was refused on a store that holds a cloned repository
C6_Witness ==
  /\ last.op = "New" /\ last.err # NoErr
  /\ Cause(last.err) = "repo already exists"
  /\ store[last.h].meta.init /\ HeadOf(last.h) # NoCommit

\* C7: a New that gets to the bootstrap clones when the store holds no
\* metadata entry, and opens (calling nothing that talks to the remote, and
\* changing neither store nor remote) when the store holds the metadata
\* directory and openExisting is set; the open succeeds on an initialized
\* repository; no New calls both Clone and Open.
C7_CloneOrOpen ==
  [][last'.op = "New" =>
       LET c == last'.arg
           h == last'.h
           kind == IF c.useMemFs THEN "absent" ELSE store[h].meta.kind
       IN /\ last'.steps \in {<<>>, <<"Clone">>, <<"Open">>}
          /\ (~Bootstrapped(last') => last'.steps = <<>>)
          /\ (Bootstrapped(last') /\ kind = "absent") => last'.steps = <<"Clone">>
          /\ (Bootstrapped(last') /\ kind = "dir" /\ c.openExisting) =>
               /\ last'.steps = <<"Open">>
               /\ store' = store /\ remote' = remote /\ ncommits' = ncommits
               /\ (store[h].meta.init => last'.err = NoErr /\ handle'[h].bound)]_vars

\* a second New opened the repository an earlier one had cloned
C7_Witness ==
  /\ last.op = "New" /\ last.err = NoErr
  /\ last.steps = <<"Open">>
  /\ HeadOf(last.h) # NoCommit /\ handle[last.h].bound

\* ------------------------------------- the configurations, every one of them
NextConfig == \E h \in Handles : NewCall(h, Configs)

SpecConfig == Init /\ [][NextConfig]_vars

ValidationErrs ==
  {NewErr("empty repo url"),
   NewErr("memFs and osFs base dir are mutually exclusive"),
   NewErr("osFs base dir is not provided")}

\* C8: Valid fails exactly when the trimmed URL is empty, or the store is the
\* memory one and the trimmed base directory is not empty, or the store is
\* path-rooted and the trimmed base directory is empty; when it fails New
\* returns its error and no handle, calls nothing and leaves the store alone.
C8_ValidIff ==
  [][last'.op = "New" =>
       LET c == last'.arg
           url == TrimSpace(c.repoUrl)
           dir == TrimSpace(c.osFsBaseDir)
           bad == \/ url = <<>>
                  \/ c.useMemFs /\ dir # <<>>
                  \/ ~c.useMemFs /\ dir = <<>>
       IN /\ bad <=> last'.err \in ValidationErrs
          /\ bad => /\ ~handle'[last'.h].bound
                    /\ last'.steps = <<>>
                    /\ store' = store /\ remote' = remote]_vars

\* New refused the memory store with a base directory, the URL being given
\* with blanks around it
C8_Witness ==
  /\ last.op = "New"
  /\ last.arg.useMemFs /\ last.arg.osFsBaseDir = <<"d">>
  /\ last.arg.repoUrl = <<" ", "u", " ">>
  /\ last.err = NewErr("memFs and osFs base dir are mutually exclusive")

\* C9: the decision for a visited path is a function of (staging, worktree):
\* no entry and (Unmodified, Unmodified) add nothing; (Unmodified, X) and
\* (X, Unmodified) and (X, X) give X; (X, Y) with X # Y gives Inconsistent.
\* Inconsistent comes out exactly when the entry exists, both states differ
\* from Unmodified and they differ from each other; Unmodified never comes
\* out.
C9_DecisionTable ==
  decided # "pending" =>
    LET s == fstatus.Staging
        w == fstatus.Worktree
        expected ==
          CASE ~fstatus.present -> Nil
            [] fstatus.present /\ s = Unmodified /\ w = Unmodified -> Nil
            [] fstatus.present /\ s = Unmodified /\ w # Unmodified -> w
            [] fstatus.present /\ s # Unmodified /\ w = Unmodified -> s
            [] fstatus.present /\ s # Unmodified /\ w # Unmodified /\ s = w -> s
            [] fstatus.present /\ s # Unmodified /\ w # Unmodified /\ s # w
                 -> Inconsistent
    IN /\ decided = expected
       /\ decided = Inconsistent <=>
            (fstatus.present /\ s # Unmodified /\ w # Unmodified /\ s # w)
       /\ decided # Unmodified

\* a file added to the index and then deleted from the store
C9_Witness ==
  /\ fstatus = FileStatus(Added, Deleted)
  /\ decided = Inconsistent

\* a file of the local head, staged as committed, that the store holds with
\* other content
Overwritten(st, p) ==
  /\ st.meta.kind = "dir" /\ st.meta.init
  /\ TreeOf(st.meta.head)[p] # NoFile
  /\ st.meta.index[p] = TreeOf(st.meta.head)[p]
  /\ st.files[p] \notin {NoFile, st.meta.index[p]}

\* C10: a committed file overwritten with other content through the facade,
\* nothing staged in between, has status Modified; and the Sync(false) that
\* then returns nil leaves the status map empty.
C10_OverwriteModified ==
  /\ [](\A h \in Handles : \A p \in Paths :
          (handle[h].bound /\ Overwritten(store[h], p)) =>
            LET status == GetStatus(store[h])
            IN p \in DOMAIN status /\ status[p] = Modified)
  /\ [][(last'.op = "Sync" /\ last'.arg = FALSE /\ last'.err = NoErr
         /\ \E p \in Paths : Overwritten(store[last'.h], p))
        => DOMAIN GetStatus(store'[last'.h]) = {}]_vars

\* the file a Sync committed and pushed has just been overwritten
C10_Witness ==
  /\ last.op = "File" /\ handle[last.h].bound
  /\ Overwritten(store[last.h], <<"a">>)
  /\ TreeOf(HeadOf(last.h))[<<"a">>] = "y"
  /\ Depth(HeadOf(last.h)) > 1 /\ remote = HeadOf(last.h)

\* the arguments the traversal from the root hands to its callback
Visited(st) ==
  LET seq == traverseDir(st, <<Root>>) IN {seq[i] : i \in 1..Len(seq)}

\* a path that is the metadata entry or lies under it
InMetadata(p) == p # <<>> /\ Head(p) = GitDirName

\* C11: whatever the store holds, the traversal from the root never calls
\* back with the metadata entry or a path under it, and no key of a map a
\* status query returned is the metadata entry or lies under it.
C11_MetadataNeverVisited ==
  /\ \A h \in Handles :
       \A p \in Visited(store[h]) : p # <<>> /\ ~InMetadata(p)
  /\ last.op = "Status" => \A k \in DOMAIN last.out : ~InMetadata(k)

\* the store holds an initialized metadata directory next to two files, and
\* the traversal called back for exactly the two files
C11_Witness ==
  \E h \in Handles :
    /\ store[h].meta.kind = "dir" /\ store[h].meta.init
    /\ <<Root, GitDirName, "HEAD">> \in Entries(store[h])
    /\ Visited(store[h]) = {<<"a">>, <<"d", "a">>}

ResetFailed(l) ==
  l.op = "Sync" /\ l.arg = TRUE /\ l.steps = <<"Reset">> /\ l.err # NoErr

\* the metadata of an initialized repository whose origin is url
Complete(m, url) ==
  m.kind = "dir" /\ m.init /\ m.origin = url /\ url # NoUrl

\* C13 (as claimed): whichever step of Reset fails, the store afterwards
\* holds either no metadata directory or a complete one: an initialized
\* repository with the origin remote registered.
C13_ResetFailureAtomic ==
  [][ResetFailed(last') =>
       LET m == store'[last'.h].meta
       IN m.kind = "absent" \/ Complete(m, handle'[last'.h].repoUrl)]_vars

\* a Sync(true) whose Reset returned nil: it went on to AddAll
ResetDone(l) ==
  l.op = "Sync" /\ l.arg = TRUE /\ Len(l.steps) >= 2 /\ l.steps[1] = "Reset"

\* C14: after a Reset that succeeds the handle works on the newly initialized
\* repository: its only remote is origin with the URL the handle was made
\* with, and it has no commits and an empty index (seen when the AddAll that
\* follows fails: every file of the store is then untracked); the commit,
\* push and status that follow act on it: the commit has no parent and holds
\* the files of the store, and the push makes the remote that commit.
C14_ResetReplacesRepository ==
  [][ResetDone(last') =>
       LET h == last'.h
           m == store'[h].meta
           present == {p \in Paths : store'[h].files[p] # NoFile}
       IN /\ Complete(m, handle[h].repoUrl)
          /\ handle' = handle
          /\ m.head = NoCommit \/ m.head.hist = <<ncommits'>>
          /\ (last'.steps = <<"Reset", "AddAll">> /\ last'.err # NoErr) =>
               /\ m.head = NoCommit /\ m.index = EmptyTree
               /\ GetStatus(store'[h]) = [p \in present |-> Untracked]
          /\ last'.err = NoErr =>
               /\ m.head = [hist |-> <<ncommits'>>, tree |-> store'[h].files]
               /\ remote' = m.head
               /\ DOMAIN GetStatus(store'[h]) = {}]_vars

\* a handle whose repository had two commits was reset, the AddAll after it
\* failed, and the store holds a file
C14_Witness ==
  /\ ResetDone(last) /\ last.steps = <<"Reset", "AddAll">> /\ last.err # NoErr
  /\ HeadOf(last.h) = NoCommit /\ Depth(remote) = 2
  /\ store[last.h].files[<<"a">>] = "y"

\* C15 (as claimed): when the metadata path exists in a path-rooted store and
\* is not a directory, a New that gets to the bootstrap fails with ".git is
\* not a directory", whatever openExisting is, and calls neither Clone nor
\* Open.
C15_CorruptBeforeGuard ==
  [][(Bootstrapped(last') /\ ~last'.arg.useMemFs
      /\ store[last'.h].meta.kind = "file")
     => /\ last'.err # NoErr
        /\ Cause(last'.err) = ".git is not a directory"
        /\ last'.steps = <<>>]_vars

\* a New whose clone was cut short (transport failure or cancelled context)
CloneAborted(l) ==
  l.op = "New" /\ l.steps = <<"Clone">> /\ l.err # NoErr

\* C16 (as claimed): a New whose clone is cut short returns an error and no
\* handle, and the New that follows it on the same path-rooted store with
\* openExisting set does not come back with a handle opened on the metadata
\* the cut-short clone left.
C16_PartialCloneNotOpened ==
  [][/\ CloneAborted(last') => ~handle'[last'.h].bound
     /\ (CloneAborted(last) /\ last'.op = "New" /\ last'.h = last.h
         /\ ~last'.arg.useMemFs /\ last'.arg.openExisting)
        => ~(last'.steps = <<"Open">> /\ last'.err = NoErr
             /\ handle'[last'.h].bound)]_vars

\* ------------------------------------------------ GitFs values from Chroot
\* GitFs.Chroot returns &GitFs{fs: fs}: a value on the sub-store whose git
\* field is left nil.  A GitFs value is [git, root]; New's has git = "bound".
MaxChroot == 2
ChrootDirs == {<<"d">>}
Panic == "panic: nil pointer dereference"
RootView == [git |-> "bound", root |-> <<>>]
ChrootOf(view, path) == [git |-> Nil, root |-> view.root \o path]

\* the GitFs value the next call is made on: the one the last Chroot
\* returned, else the one New returned
CurrentView == IF last.op = "Chroot" THEN last.out ELSE RootView

\* g.Chroot(path) on the current value
ChrootCall(h) ==
  /\ handle[h].bound
  /\ Len(CurrentView.root) < MaxChroot
  /\ \E path \in ChrootDirs :
       last' = [op |-> "Chroot", h |-> h, err |-> NoErr, steps |-> <<>>,
                arg |-> path, out |-> ChrootOf(CurrentView, path)]
  /\ UNCHANGED <<ncommits, remote, store, handle, tableVars>>

\* g.Pull() on a value Chroot returned: g.git.Pull() with g.git as it is
ViewPull(h) ==
  /\ handle[h].bound /\ last.op = "Chroot" /\ last.h = h
  /\ IF last.out.git = Nil
       THEN /\ last' = [op |-> "Pull", h |-> h, err |-> NoErr, steps |-> <<>>,
                        arg |-> Nil, out |-> Panic]
            /\ UNCHANGED <<ncommits, remote, store, handle, tableVars>>
       ELSE PullCall(h)

\* g.Sync(purge) on a value Chroot returned: g.git.Reset() or g.git.AddAll()
ViewSync(h) ==
  /\ handle[h].bound /\ last.op = "Chroot" /\ last.h = h
  /\ IF last.out.git = Nil
       THEN /\ \E purge \in BOOLEAN :
                 last' = [op |-> "Sync", h |-> h, err |-> NoErr, steps |-> <<>>,
                          arg |-> purge, out |-> Panic]
            /\ UNCHANGED <<ncommits, remote, store, handle, tableVars>>
       ELSE SyncCall(h)

NextChroot ==
  \E h \in Handles :
    \/ NewCall(h, SessionConfigs)
    \/ PullCall(h)
    \/ Create(h)
    \/ Remove(h)
    \/ ChrootCall(h)
    \/ ViewPull(h)
    \/ ViewSync(h)

SpecChroot == Init /\ [][NextChroot]_vars

\* C17 (as claimed): every GitFs value got from New or from a chain of
\* Chroot calls has a repository handle, and Pull and Sync called on it
\* return nil or an error: they never dereference a nil handle.
C17_EveryGitFsBound ==
  /\ (last.op = "Chroot" /\ last.err = NoErr) => last.out.git # Nil
  /\ last.op \in {"Pull", "Sync"} => last.out # Panic

\* ------------------------------------- the status query over chosen stores
\* Stores a caller can have built: any of the files of Paths, a file under a
\* directory named like the metadata directory below the root, and a
\* repository that is fresh, cloned, or staged without a commit.
NestedGit == <<"d", GitDirName, "c">>
WalkPaths == Paths \cup {NestedGit}
WalkFiles == [WalkPaths -> Contents \cup {NoFile}]
WalkHeads == {NoCommit, [hist |-> <<1>>, tree |-> InitTree]}
WalkIndexes == {EmptyTree, InitTree, [p \in Paths |-> "x"]}
WalkStores ==
  {[files |-> f,
    meta |-> [kind |-> "dir", init |-> TRUE, origin |-> RemoteUrl,
              head |-> c, index |-> i]] :
     f \in WalkFiles, c \in WalkHeads, i \in WalkIndexes}

InitWalk ==
  /\ ncommits = 1
  /\ remote = [hist |-> <<1>>, tree |-> InitTree]
  /\ store \in [Handles -> WalkStores]
  /\ handle = [h \in Handles |->
                 [bound |-> TRUE, repoUrl |-> RemoteUrl, pulled |-> FALSE]]
  /\ last = NoCall
  /\ fstatus = NilStatus
  /\ decided = Nil

NextWalk == \E h \in Handles : StatusCall(h)

SpecWalk == InitWalk /\ [][NextWalk]_vars

\* C18: every key of the map a status query returns is a file the store
\* holds at the time of the call; so a file of the head commit that was
\* removed from the store has no entry, although go-git reports it Deleted;
\* and the walk calls back for nothing that has a component named like the
\* metadata directory, at whatever depth.
C18_KeysAreStoreFiles ==
  last.op = "Status" =>
    LET st == store[last.h] IN
    /\ \A k \in DOMAIN last.out :
         k \in DOMAIN st.files /\ st.files[k] # NoFile
    /\ \A q \in Paths :
         (TreeOf(st.meta.head)[q] # NoFile /\ st.files[q] = NoFile)
           => q \notin DOMAIN last.out
    /\ \A v \in Visited(st) : \A i \in 1..Len(v) : v[i] # GitDirName
    /\ DOMAIN last.out \subseteq Visited(st)

\* the file "a" of the head commit is gone from the store (go-git: Deleted),
\* a file lies under d/.git, and the map reports d/a alone
C18_Witness ==
  /\ last.op = "Status"
  /\ store[last.h].files[NestedGit] # NoFile
  /\ store[last.h].files[<<"a">>] = NoFile
  /\ WtStatus(store[last.h], <<"a">>).Worktree = Deleted
  /\ DOMAIN last.out = {<<"d", "a">>}

InitialRemote == [hist |-> <<1>>, tree |-> InitTree]

\* C20: a step changes the remote branch only when it is a Sync that got to
\* its push and returned nil (this handle's, or another writer's session),
\* and the branch then is the commit that Sync made; a step of a handle other
\* than New brings commits into the local history only when it is a Sync that
\* got to its commit, or a Pull.  File operations, Status, a failed Reset or
\* AddAll or Commit leave the remote alone, so the remote branch is always
\* its initial commit or a commit made by a Sync.
C20_RemoteOnlyByPush ==
  /\ [](remote = InitialRemote
        \/ (remote.hist # <<>> /\ remote.hist[Len(remote.hist)] \in 2..ncommits))
  /\ [][/\ remote' # remote =>
             \/ last'.op = "Other"
             \/ /\ last'.op = "Sync" /\ last'.err = NoErr
                /\ last'.steps[Len(last'.steps)] = "Push"
                /\ remote' = store'[last'.h].meta.head
                /\ remote'.hist[Len(remote'.hist)] = ncommits'
        /\ last'.op \in {"File", "Status", "Pull", "New"} => ncommits' = ncommits
        /\ \A h \in Handles :
             (last'.op # "New"
              /\ ~(Ancestors(store'[h].meta.head) \subseteq Ancestors(store[h].meta.head)))
             => \/ last'.op = "Pull"
                \/ last'.op = "Sync" /\ "Commit" \in Range(last'.steps)]_vars

\* after another commit had been pushed, a Sync on changed files failed at
\* its commit: the remote is where that push left it
C20_Witness ==
  /\ last.op = "Sync" /\ last.err # NoErr
  /\ last.steps = <<"AddAll", "Commit">>
  /\ Depth(remote) = 2
  /\ store[last.h].files # TreeOf(remote)
  /\ store[last.h].meta.index = store[last.h].files

====
